---- MODULE Spec2Model ----
(***************************************************************************)
(* A model of squanch/qstream.py: QStream (batched storage of state        *)
(* vectors with a head cursor), QSystem (a view of one row) and Qubit (a   *)
(* reference to one bit position of a QSystem).                            *)
(*                                                                         *)
(* Amplitudes.  The code stores complex64 amplitudes.  The model uses the  *)
(* real amplitudes (x + y*sqrt2)/2, written <<x, y>>, with exact           *)
(* arithmetic: 1 is <<2,0>>, 1/2 is <<1,0>>, 1/sqrt2 is <<0,1>>.  Every    *)
(* operator the model applies keeps the rows inside this set.              *)
(*                                                                         *)
(* Indices.  The code's indices are 0-based; TLA+ sequences are 1-based.   *)
(* Row r of the code is state[r + 1] here, basis index k is vec[k + 1].    *)
(***************************************************************************)
EXTENDS Integers, Sequences, FiniteSets, TLC

VARIABLES
    pc,      \* "new" before QStream(...) ran, "live" after it returned, "failed" after it raised
    state,   \* QStream.state: the sequence of rows, each a sequence of amplitudes
    index,   \* QStream.index: the head of the stream
    handles, \* the caller's variables holding QSystem objects (NoSys when unbound)
    applies, \* how many apply() calls have stored a result so far
    call     \* the record of the most recent call and of its outcome

vars == <<pc, state, index, handles, applies, call>>

(***************************************************************************)
(* Bounds of the model.                                                    *)
(***************************************************************************)
MaxSystems == 2    \* numSystems ranges over -1 .. MaxSystems
MaxSize == 3       \* systemSize ranges over 0 .. MaxSize
MaxApplies == 1    \* apply() calls that store a result, per run

(***************************************************************************)
(* Exact arithmetic on amplitudes (x + y*sqrt2)/2.                         *)
(***************************************************************************)
Zero == <<0, 0>>
One == <<2, 0>>
RSqrt2 == <<0, 1>>
MinusRSqrt2 == <<0, -1>>

\* a * b, as the numerator pair of a fraction over 4
Mul4(a, b) == <<a[1] * b[1] + 2 * a[2] * b[2], a[1] * b[2] + a[2] * b[1]>>

\* a numerator pair over 4 brought back to a pair over 2
Halve(p) == <<p[1] \div 2, p[2] \div 2>>

RECURSIVE SumMul4(_, _, _)
SumMul4(u, v, n) ==
    IF n = 0 THEN <<0, 0>>
    ELSE LET r == SumMul4(u, v, n - 1)
             t == Mul4(u[n], v[n])
         IN <<r[1] + t[1], r[2] + t[2]>>

\* the inner product of two vectors of the same length
Inner(u, v) == Halve(SumMul4(u, v, Len(u)))

RECURSIVE Pow2(_)
Pow2(n) == IF n <= 0 THEN 1 ELSE 2 * Pow2(n - 1)

\* int(np.log2(size)) for a size >= 1
RECURSIVE Log2(_)
Log2(size) == IF size <= 1 THEN 0 ELSE 1 + Log2(size \div 2)

(***************************************************************************)
(* linalg.tensorProd: the Kronecker product of two vectors.  The module is *)
(* not part of the sources; the empty vector is its unit, which is what    *)
(* lets the constructor's loop start from np.array([]).                    *)
(***************************************************************************)
tensorProd(a, b) ==
    IF Len(a) = 0 THEN b
    ELSE IF Len(b) = 0 THEN a
    ELSE [k \in 1..(Len(a) * Len(b)) |->
            Halve(Mul4(a[((k - 1) \div Len(b)) + 1], b[((k - 1) % Len(b)) + 1]))]

\* np.array([1, 0]): the |0> state of one qubit
initialQubitState == <<One, Zero>>

\* the trip count of the constructor's loop, "for _ in range(2)"
TensorLoopCount == 2

RECURSIVE TensorLoop(_)
TensorLoop(n) ==
    IF n = 0 THEN <<>> ELSE tensorProd(TensorLoop(n - 1), initialQubitState)

\* the constructor's loop does not read systemSize
initialSystemState(systemSize) == TensorLoop(TensorLoopCount)

\* QStream.__init__: np.repeat raises ValueError for a negative repeat count
QStream_init(systemSize, numSystems) ==
    IF numSystems < 0
    THEN [err |-> "ValueError", state |-> <<>>, index |-> 0]
    ELSE [err |-> "none",
          state |-> [i \in 1..numSystems |-> initialSystemState(systemSize)],
          index |-> 0]

(***************************************************************************)
(* QSystem objects.  QSystem.state is a numpy array: a view of one row of  *)
(* QStream.state (view = TRUE, row = the row) or an array of its own       *)
(* (view = FALSE, own = its contents).                                     *)
(***************************************************************************)
NoSys == [view |-> FALSE, row |-> -1, own |-> <<>>, numQubits |-> 0]

\* the contents of sys.state
SysState(sys) == IF sys.view THEN state[sys.row + 1] ELSE sys.own

\* a QSystem built on a copy of row r instead of a view of it
QSystem_init_copy(r) ==
    [view |-> FALSE, row |-> r, own |-> state[r + 1],
     numQubits |-> Log2(Len(state[r + 1]))]

\* QSystem.__init__ given a view of row r: numQubits = int(np.log2(state.size))
QSystem_init(r) ==
    [view |-> TRUE, row |-> r, own |-> <<>>, numQubits |-> Log2(Len(state[r + 1]))]

\* numpy's row lookup state[i]: a negative i counts from the end; -1 is IndexError
RowOf(i) ==
    LET m == Len(state)
    IN IF 0 <= i /\ i < m THEN i
       ELSE IF -m <= i /\ i < 0 THEN m + i
       ELSE -1

\* QStream.system
system(i) ==
    IF RowOf(i) = -1
    THEN [err |-> "IndexError", sys |-> NoSys]
    ELSE [err |-> "none", sys |-> QSystem_init(RowOf(i))]

\* pop advancing the head before it reads the row
pop_increment_first ==
    LET r == system(index + 1)
    IN [err |-> r.err, sys |-> r.sys, index |-> index + 1]

\* pop advancing the head whether or not system(self.index) raised
pop_always_increment ==
    LET r == system(index)
    IN [err |-> r.err, sys |-> r.sys, index |-> index + 1]

\* QStream.pop: the head advances only after system(self.index) returned
pop ==
    LET r == system(index)
    IN [err |-> r.err, sys |-> r.sys,
        index |-> IF r.err = "none" THEN index + 1 ELSE index]

(***************************************************************************)
(* numpy arrays handed to apply(): ndim 0 is a scalar (val an amplitude),  *)
(* ndim 1 a vector (val a sequence), ndim 2 a matrix (val its rows).       *)
(***************************************************************************)
Scalar(a) == [ndim |-> 0, val |-> a]
Vector(v) == [ndim |-> 1, val |-> v]
Matrix(rows) == [ndim |-> 2, val |-> rows]

\* np.dot(a, vec) for a 1-D vec: a scalar scales, a vector gives the inner
\* product, a matrix the matrix-vector product; other shapes do not align
np_dot(a, vec) ==
    IF a.ndim = 0
    THEN [err |-> "none", arr |-> Vector([k \in 1..Len(vec) |-> Halve(Mul4(a.val, vec[k]))])]
    ELSE IF a.ndim = 1
    THEN IF Len(a.val) # Len(vec)
         THEN [err |-> "ValueError", arr |-> Vector(<<>>)]
         ELSE [err |-> "none", arr |-> Scalar(Inner(a.val, vec))]
    ELSE IF Len(a.val[1]) # Len(vec)
         THEN [err |-> "ValueError", arr |-> Vector(<<>>)]
         ELSE [err |-> "none",
               arr |-> Vector([i \in 1..Len(a.val) |-> Inner(a.val[i], vec)])]

\* vec[...] = arr: numpy broadcasts a scalar or a length-1 vector over vec,
\* copies a vector of vec's length, and raises ValueError for any other
Broadcast(arr, vec) ==
    IF arr.ndim = 0
    THEN [err |-> "none", vec |-> [k \in 1..Len(vec) |-> arr.val]]
    ELSE IF Len(arr.val) = Len(vec)
    THEN [err |-> "none", vec |-> arr.val]
    ELSE IF Len(arr.val) = 1
    THEN [err |-> "none", vec |-> [k \in 1..Len(vec) |-> arr.val[1]]]
    ELSE [err |-> "ValueError", vec |-> vec]

\* a write through sys.state that lands in every row of the storage
StoreInPlace_every_row(sys, vec) ==
    [state |-> IF sys.view THEN [i \in 1..Len(state) |-> vec] ELSE state,
     sys |-> IF sys.view THEN sys ELSE [sys EXCEPT !.own = vec]]

\* an in-place write of vec through sys.state: it lands in the row sys views
StoreInPlace(sys, vec) ==
    [state |-> IF sys.view THEN [state EXCEPT ![sys.row + 1] = vec] ELSE state,
     sys |-> IF sys.view THEN sys ELSE [sys EXCEPT !.own = vec]]

\* QSystem.apply: self.state[...] = np.dot(operator, self.state)
apply(sys, operator) ==
    LET d == np_dot(operator, SysState(sys))
        b == Broadcast(d.arr, SysState(sys))
    IN IF d.err # "none"
       THEN [err |-> d.err, state |-> state, sys |-> sys]
       ELSE IF b.err # "none"
       THEN [err |-> b.err, state |-> state, sys |-> sys]
       ELSE [err |-> "none"] @@ StoreInPlace(sys, b.vec)

(***************************************************************************)
(* statevector.collapse, which is not part of the sources: the projective  *)
(* measurement of one qubit, qubit 0 being the most significant bit of the *)
(* basis index.  Probabilities are kept as integers p4 = 4 * p.            *)
(***************************************************************************)
\* bit q of basis index k in an n-qubit system
Bit(k, q, n) == (k \div Pow2(n - 1 - q)) % 2

\* 4 * |a|^2 for an amplitude with x = 0 or y = 0
AbsSq4(a) == a[1] * a[1] + 2 * a[2] * a[2]

RECURSIVE GroupSum4(_, _, _, _)
GroupSum4(vec, q, bit, k) ==
    IF k = 0 THEN 0
    ELSE GroupSum4(vec, q, bit, k - 1)
         + (IF Bit(k - 1, q, Log2(Len(vec))) = bit THEN AbsSq4(vec[k]) ELSE 0)

\* 4 * p0: the weight of the basis states whose bit q is 0
Weight4(vec, q) == GroupSum4(vec, q, 0, Len(vec))

\* 4 * p_bit given 4 * p0: p1 is 1 - p0
Prob4(p0, bit) == IF bit = 0 THEN p0 ELSE 4 - p0

\* a / sqrt(p4 / 4)
DivSqrt(a, p4) ==
    IF p4 = 1 THEN <<2 * a[1], 2 * a[2]>>
    ELSE IF p4 = 2 THEN <<2 * a[2], a[1]>>
    ELSE a

\* the outcomes that can be sampled: those of positive probability
Outcomes(vec, q) ==
    LET p0 == Weight4(vec, q)
    IN IF p0 < 0 \/ p0 > 4 THEN {} ELSE {bit \in {0, 1} : Prob4(p0, bit) > 0}

\* collapse(vec, q) when the sampled outcome is bit
collapse(vec, q, bit) ==
    LET n == Log2(Len(vec))
    IN IF q < 0 \/ q >= n
       THEN [err |-> "IndexError", ret |-> -1, vec |-> vec]
       ELSE LET p0 == Weight4(vec, q)
                p4 == Prob4(p0, bit)
            IN IF p0 < 0 \/ p0 > 4 \/ p4 <= 0
               THEN [err |-> "ValueError", ret |-> -1, vec |-> vec]
               ELSE [err |-> "none", ret |-> bit,
                     vec |-> [k \in 1..Len(vec) |->
                                IF Bit(k - 1, q, n) = bit THEN DivSqrt(vec[k], p4)
                                ELSE Zero]]

\* measureQubit collapsing a copy of self.state: the outcome is returned, the row is not written
measureQubit_on_copy(sys, qubitIndex, bit) ==
    LET c == collapse(SysState(sys), qubitIndex, bit)
    IN [err |-> c.err, ret |-> c.ret, collapsed |-> TRUE, state |-> state, sys |-> sys]

\* QSystem.measureQubit: hands self.state and qubitIndex to collapse as they are
measureQubit(sys, qubitIndex, bit) ==
    LET c == collapse(SysState(sys), qubitIndex, bit)
    IN [err |-> c.err, ret |-> c.ret, collapsed |-> TRUE]
       @@ StoreInPlace(sys, c.vec)

\* QSystem.qubits: Qubit(self, i) for i in range(self.numQubits)
qubits(sys) == {[qSystem |-> sys, index |-> i] : i \in 0..(sys.numQubits - 1)}

\* Qubit.measure
measure(qubit, bit) == measureQubit(qubit.qSystem, qubit.index, bit)

(***************************************************************************)
(* The arrays the model passes to apply().  HI (Hadamard on qubit 0) is    *)
(* 4 x 4 and unitary; the others do not have the shape of a two-qubit      *)
(* operator: the scalar 0, the zero vector of length 4, the zero 1 x 4     *)
(* matrix, a 2 x 2 matrix and a 3 x 4 matrix.                              *)
(***************************************************************************)
Operators ==
    [HI   |-> Matrix(<< <<RSqrt2, Zero, RSqrt2, Zero>>,
                        <<Zero, RSqrt2, Zero, RSqrt2>>,
                        <<RSqrt2, Zero, MinusRSqrt2, Zero>>,
                        <<Zero, RSqrt2, Zero, MinusRSqrt2>> >>),
     zero |-> Scalar(Zero),
     vec4 |-> Vector(<<Zero, Zero, Zero, Zero>>),
     row4 |-> Matrix(<< <<Zero, Zero, Zero, Zero>> >>),
     H    |-> Matrix(<< <<RSqrt2, RSqrt2>>, <<RSqrt2, MinusRSqrt2>> >>),
     m34  |-> Matrix(<< <<One, Zero, Zero, Zero>>,
                        <<Zero, One, Zero, Zero>>,
                        <<Zero, Zero, One, Zero>> >>)]

OperatorNames == DOMAIN Operators

\* whether the array is a 2^n x 2^n matrix
IsSquareOfDim(a, dim) ==
    a.ndim = 2 /\ Len(a.val) = dim /\ \A i \in 1..Len(a.val) : Len(a.val[i]) = dim

(***************************************************************************)
(* The calls a client makes, one action per call.                          *)
(***************************************************************************)
\* the caller keeps the QSystem of its latest pop() in one variable and the
\* QSystem of its latest system(i) in another
PopVar == "a"
SystemVar == "b"
Vars == {PopVar, SystemVar}

NoCall ==
    [op |-> "none", arg |-> 0, size |-> 0, name |-> "", err |-> "none", ret |-> -1,
     row |-> -1, collapsed |-> FALSE, again |-> FALSE]

Init ==
    /\ pc = "new"
    /\ state = <<>>
    /\ index = 0
    /\ handles = [v \in Vars |-> NoSys]
    /\ applies = 0
    /\ call = NoCall

\* stream = QStream(systemSize, numSystems)
Construct(systemSize, numSystems) ==
    /\ pc = "new"
    /\ LET r == QStream_init(systemSize, numSystems)
       IN /\ pc' = IF r.err = "none" THEN "live" ELSE "failed"
          /\ state' = r.state
          /\ index' = r.index
          /\ call' = [NoCall EXCEPT !.op = "init", !.size = systemSize,
                                    !.arg = numSystems, !.err = r.err]
    /\ UNCHANGED <<handles, applies>>

\* handles[SystemVar] = stream.system(i)
System(i) ==
    /\ pc = "live"
    /\ LET r == system(i)
       IN /\ handles' = IF r.err = "none" THEN [handles EXCEPT ![SystemVar] = r.sys]
                      ELSE handles
          /\ call' = [NoCall EXCEPT !.op = "system", !.arg = i, !.err = r.err,
                                    !.ret = r.sys.row, !.row = r.sys.row]
    /\ UNCHANGED <<pc, state, index, applies>>

\* handles[PopVar] = stream.pop()
Pop ==
    /\ pc = "live"
    /\ LET r == pop
       IN /\ handles' = IF r.err = "none" THEN [handles EXCEPT ![PopVar] = r.sys]
                      ELSE handles
          /\ index' = r.index
          /\ call' = [NoCall EXCEPT !.op = "pop", !.arg = index, !.err = r.err,
                                    !.ret = r.sys.row, !.row = r.sys.row]
    /\ UNCHANGED <<pc, state, applies>>

\* the row a call through sys wrote to (none when the call raised)
Target(sys, err) == IF err = "none" THEN sys.row ELSE -1

\* handles[v].apply(Operators[name])
Apply(v, name) ==
    /\ pc = "live"
    /\ handles[v] # NoSys
    /\ LET r == apply(handles[v], Operators[name])
       IN /\ r.err = "none" => applies < MaxApplies
          /\ state' = r.state
          /\ handles' = [handles EXCEPT ![v] = r.sys]
          /\ applies' = IF r.err = "none" THEN applies + 1 ELSE applies
          /\ call' = [NoCall EXCEPT !.op = "apply", !.name = name, !.err = r.err,
                                    !.row = Target(handles[v], r.err)]
    /\ UNCHANGED <<pc, index>>

\* the outcomes collapse can sample for this call (a placeholder when collapse raises)
Samples(sys, q) ==
    IF 0 <= q /\ q < sys.numQubits
    THEN LET o == Outcomes(SysState(sys), q) IN IF o = {} THEN {0} ELSE o
    ELSE {0}

\* whether this measurement of qubit q of row r directly follows a successful one of the same
Again(r, q) ==
    /\ call.op = "measureQubit"
    /\ call.err = "none"
    /\ call.row = r
    /\ call.arg = q

\* handles[v].measureQubit(q)
MeasureQubit(v, q) ==
    /\ pc = "live"
    /\ handles[v] # NoSys
    /\ \E bit \in Samples(handles[v], q) :
          LET r == measureQubit(handles[v], q, bit)
          IN /\ state' = r.state
             /\ handles' = [handles EXCEPT ![v] = r.sys]
             /\ call' = [NoCall EXCEPT !.op = "measureQubit", !.arg = q,
                                       !.err = r.err, !.ret = r.ret,
                                       !.row = Target(handles[v], r.err),
                                       !.collapsed = r.collapsed,
                                       !.again = Again(handles[v].row, q)]
    /\ UNCHANGED <<pc, index, applies>>

\* for qubit in handles[v].qubits(): one of them is picked, then qubit.measure(),
\* which is recorded as the measureQubit call it makes
QubitMeasure(v) ==
    /\ pc = "live"
    /\ handles[v] # NoSys
    /\ \E qubit \in qubits(handles[v]) :
          \E bit \in Samples(qubit.qSystem, qubit.index) :
             LET r == measure(qubit, bit)
             IN /\ state' = r.state
                /\ handles' = [handles EXCEPT ![v] = r.sys]
                /\ call' = [NoCall EXCEPT !.op = "measureQubit", !.arg = qubit.index,
                                          !.err = r.err, !.ret = r.ret,
                                          !.row = Target(handles[v], r.err),
                                          !.collapsed = r.collapsed,
                                          !.again = Again(handles[v].row, qubit.index)]
    /\ UNCHANGED <<pc, index, applies>>

SizeArgs == 0..MaxSize
NumArgs == -1..MaxSystems
IndexArgs == -1..MaxSystems
QubitArgs == -1..TensorLoopCount

Next ==
    \/ \E s \in SizeArgs, m \in NumArgs : Construct(s, m)
    \/ \E i \in IndexArgs : System(i)
    \/ Pop
    \/ \E v \in Vars, name \in OperatorNames : Apply(v, name)
    \/ \E v \in Vars, q \in QubitArgs : MeasureQubit(v, q)
    \/ \E v \in Vars : QubitMeasure(v)

Spec == Init /\ [][Next]_vars

(***************************************************************************)
(* Properties.                                                             *)
(***************************************************************************)
\* the |0...0> state of a system of s qubits: amplitude 1 at basis index 0
BasisZero(s) == [k \in 1..Pow2(s) |-> IF k = 1 THEN One ELSE Zero]

\* the length of the rows (they all have the same length)
RowLen == IF Len(state) = 0 THEN 0 ELSE Len(state[1])

\* sys.state after the step
SysStateNext(sys) == IF sys.view THEN state'[sys.row + 1] ELSE sys.own

\* the row apply(operator) leaves when it succeeds on vec
Applied(operator, vec) == Broadcast(np_dot(operator, vec).arr, vec).vec

\* C1: a pop() with head < numSystems succeeds, returns a view of row head and
\* advances head by exactly 1 (so the k-th pop of a fresh stream returns row
\* k - 1); a pop() with head = numSystems fails and binds no handle.
C1_PopInOrder ==
    [][call'.op = "pop" =>
         IF index < Len(state)
         THEN /\ call'.err = "none"
              /\ call'.ret = index
              /\ index' = index + 1
              /\ \E v \in Vars : handles'[v].view /\ handles'[v].row = index
         ELSE /\ call'.err # "none"
              /\ index' = index
              /\ handles' = handles]_vars

\* C1 witness: after numSystems successful pops, one more pop has failed
C1_Witness ==
    /\ pc = "live"
    /\ Len(state) = MaxSystems
    /\ index = Len(state)
    /\ handles[PopVar].row = Len(state) - 1
    /\ call.op = "pop"
    /\ call.err = "IndexError"

\* C2: right after QStream(s, m) with s >= 1 and m >= 1 the storage has m rows,
\* each of length 2^s with amplitude 1 at index 0 and 0 elsewhere.
C2_InitialRows ==
    (call.op = "init" /\ call.size >= 1 /\ call.arg >= 1) =>
        /\ pc = "live"
        /\ Len(state) = call.arg
        /\ \A r \in 1..Len(state) : state[r] = BasisZero(call.size)

\* C3: after every call, any two handles of the same row and the row itself
\* hold the same vector; after a successful apply through one handle every
\* handle of that row holds the operator's product with the row's old vector.
C3_SharedStorage ==
    [][/\ \A v, w \in Vars :
            (handles'[v] # NoSys /\ handles'[w] # NoSys
                /\ handles'[v].row = handles'[w].row) =>
               /\ SysStateNext(handles'[v]) = SysStateNext(handles'[w])
               /\ SysStateNext(handles'[v]) = state'[handles'[v].row + 1]
       /\ (call'.op = "apply" /\ call'.err = "none") =>
             \A w \in Vars :
                (handles'[w] # NoSys /\ handles'[w].row = call'.row) =>
                   SysStateNext(handles'[w])
                      = Applied(Operators[call'.name], state[call'.row + 1])]_vars

\* C3 witness: two handles of one row, after HI was applied through one of them
C3_Witness ==
    /\ handles["a"] # NoSys
    /\ handles["b"] # NoSys
    /\ handles["a"].row = handles["b"].row
    /\ call.op = "apply"
    /\ call.err = "none"
    /\ call.name = "HI"
    /\ call.row = handles["a"].row
    /\ SysState(handles["b"]) = <<RSqrt2, Zero, RSqrt2, Zero>>

\* C4: system(index) with index outside 0 <= index < numSystems fails, returns
\* no handle, and leaves head and storage unchanged.
C4_SystemRange ==
    [][(call'.op = "system" /\ (call'.arg < 0 \/ call'.arg >= Len(state))) =>
          /\ call'.err # "none"
          /\ handles' = handles
          /\ index' = index
          /\ state' = state]_vars

\* C5: QStream(systemSize, numSystems) with systemSize < 1 or numSystems < 1
\* fails and no stream comes into existence.
C5_InvalidDimension ==
    (call.op = "init" /\ (call.size < 1 \/ call.arg < 1)) =>
        /\ pc = "failed"
        /\ call.err # "none"
        /\ state = <<>>

\* C6: apply(operator) with an operator that is not a 2^n x 2^n matrix fails
\* and leaves the storage unmodified.
C6_DimensionMismatch ==
    [][(call'.op = "apply" /\ ~IsSquareOfDim(Operators[call'.name], RowLen)) =>
          /\ call'.err # "none"
          /\ state' = state]_vars

\* C7: a measurement of qubit q of a row that directly follows a successful
\* measurement of the same qubit of the same row succeeds, returns the same
\* bit and leaves the storage as the first measurement left it.
C7_RepeatedMeasurement ==
    [][(call'.op = "measureQubit" /\ call'.again) =>
          /\ call'.err = "none"
          /\ call'.ret = call.ret
          /\ state' = state]_vars

\* C7 witness: qubit 0 of a row in superposition was measured as 1, twice in a row
C7_Witness ==
    /\ call.op = "measureQubit"
    /\ call.again
    /\ call.arg = 0
    /\ call.ret = 1
    /\ state[call.row + 1] = <<Zero, Zero, One, Zero>>

\* C8: measureQubit(qubitIndex) with qubitIndex outside 0 <= qubitIndex <
\* numQubits fails before collapse is invoked and leaves the storage unmodified.
C8_QubitRange ==
    [][(call'.op = "measureQubit" /\ (call'.arg < 0 \/ call'.arg >= Log2(RowLen))) =>
          /\ call'.err # "none"
          /\ ~call'.collapsed
          /\ state' = state]_vars

\* C9: 0 <= head <= numSystems in every state; head is 0 after construction;
\* only a successful pop() changes it, by 1; a failing pop() leaves it alone.
C9_HeadInRange ==
    /\ [](0 <= index /\ index <= Len(state))
    /\ [][/\ call'.op = "init" => index' = 0
          /\ index' # index =>
                call'.op = "pop" /\ call'.err = "none" /\ index' = index + 1
          /\ (call'.op = "pop" /\ call'.err # "none") => index' = index]_vars

\* C9 witness: the head stands at numSystems while other calls go on
C9_Witness ==
    /\ pc = "live"
    /\ Len(state) >= 1
    /\ index = Len(state)
    /\ call.op = "measureQubit"
    /\ call.err = "none"

\* C10: apply and measureQubit through a handle of row i leave every other row
\* as it was, and after construction no call changes the number of rows or the
\* length of a row.
C10_OtherRowsUntouched ==
    [][/\ call'.op \in {"apply", "measureQubit"} =>
             \A j \in 1..Len(state) : j # call'.row + 1 => state'[j] = state[j]
       /\ pc = "live" =>
             /\ Len(state') = Len(state)
             /\ \A j \in 1..Len(state) : Len(state'[j]) = Len(state[j])]_vars

\* C10 witness: row 1 was rewritten by apply and then measured while row 0 kept
\* its initial vector
C10_Witness ==
    /\ Len(state) >= 2
    /\ call.op = "measureQubit"
    /\ call.err = "none"
    /\ call.row = 1
    /\ state[1] = <<One, Zero, Zero, Zero>>
    /\ state[2] = <<Zero, Zero, One, Zero>>

====
